---- MODULE Spec2Model ----
(***************************************************************************)
(* Model of the Excel interview agent: the ExcelInterviewerAgent state     *)
(* machine of agent.py together with the call_llm / _parse_response path   *)
(* of llm_service.py that turns a remote completion into a verdict.        *)
(* Spec is the agent driven by any caller, SpecBuild its construction from  *)
(* a question bank file, SpecParse _parse_response on its own, and SpecApp *)
(* the agent driven by the session logic of app.py.                        *)
(*                                                                         *)
(* Strings that the code inspects (completion texts) are sequences of      *)
(* lexical tokens; strings that the code only passes along (questions,     *)
(* user input, the farewell) are named by their kind.                      *)
(***************************************************************************)
EXTENDS Integers, Sequences, FiniteSets, TLC

(***************************************************************************)
(* Bounds of the model.                                                    *)
(***************************************************************************)
\* Largest playlist length explored (len(interview_playlist) ranges 0..MaxPlaylist).
MaxPlaylist == 3
\* Longest transcript explored; every call appends at least one turn.
MaxHistory == 9
\* Largest number of questions in a question bank file.
MaxBank == 3
\* Largest requested count per difficulty in a configuration.
MaxCount == 2
\* Longest text before and after the JSON object handed to _parse_response.
MaxAffix == 2
\* Longest transcript of a session of the web application: the welcome
\* turn, three turns for each of MaxPlaylist questions, the two of the end.
MaxTranscript == 12

(***************************************************************************)
(* Program constants.                                                      *)
(***************************************************************************)
\* agent.py:114  "self.attempts_for_current_question >= 2"
MaxAttempts == 2

(***************************************************************************)
(* Text: a string is a sequence of tokens [t, k, v].                       *)
(*   t = "ws"     whitespace                                               *)
(*   t = "text"   prose that is no JSON token                              *)
(*   t = "fence"  a markdown code fence                                    *)
(*   t = "think"  the closing marker </think>                              *)
(*   t = "lbrace" "rbrace" "lbrack" "rbrack" "comma"   JSON punctuation    *)
(*   t = "key"    an object key followed by its colon, v the key           *)
(*   t = "lit"    a JSON scalar literal of type k, v its text              *)
(***************************************************************************)
Tok(t) == [t |-> t, k |-> "", v |-> ""]
Key(name) == [t |-> "key", k |-> "", v |-> name]
Lit(type, text) == [t |-> "lit", k |-> type, v |-> text]

WS == Tok("ws")
Prose == Tok("text")
Fence == Tok("fence")
ThinkClose == Tok("think")
LB == Tok("lbrace")
RB == Tok("rbrace")
LK == Tok("lbrack")
RK == Tok("rbrack")
Comma == Tok("comma")

JTrue == Lit("bool", "true")
JFalse == Lit("bool", "false")
JNull == Lit("null", "null")

\* s[a..b] as Python's s[a-1:b]; empty when b < a.
Slice(s, a, b) == IF b < a THEN << >> ELSE SubSeq(s, a, b)

\* str.strip(): drop leading and trailing whitespace.
RECURSIVE LStrip(_)
LStrip(s) == IF s # << >> /\ Head(s).t = "ws" THEN LStrip(Tail(s)) ELSE s

RECURSIVE RStrip(_)
RStrip(s) ==
  IF s # << >> /\ s[Len(s)].t = "ws" THEN RStrip(SubSeq(s, 1, Len(s) - 1)) ELSE s

Strip(s) == LStrip(RStrip(s))

\* str.find / str.rfind for a one-token needle: 1-based position, 0 for
\* Python's -1.
Find(s, t) ==
  IF \E i \in 1..Len(s) : s[i].t = t
  THEN CHOOSE i \in 1..Len(s) : s[i].t = t /\ \A j \in 1..(i - 1) : s[j].t # t
  ELSE 0

\* rfind taken for find: the first occurrence instead of the last.
RFindFirst(s, t) == Find(s, t)

RFind(s, t) ==
  IF \E i \in 1..Len(s) : s[i].t = t
  THEN CHOOSE i \in 1..Len(s) : s[i].t = t /\ \A j \in (i + 1)..Len(s) : s[j].t # t
  ELSE 0

\* llm_service.py:32-64
ParseResponse(full_response) ==
  LET clean_part == IF Find(full_response, "think") # 0
                    THEN Strip(Slice(full_response, Find(full_response, "think") + 1,
                                     Len(full_response)))
                    ELSE Strip(full_response)
      start_index == Find(clean_part, "lbrace")
      end_index == RFind(clean_part, "rbrace")
  IN IF start_index # 0 /\ end_index # 0 /\ end_index > start_index
     THEN Slice(clean_part, start_index, end_index)
     ELSE clean_part

(***************************************************************************)
(* json.loads.  A JSON value is [type, lit, members, n]: its type, the     *)
(* text of a scalar, the (key, value) pairs of an object in order, and the *)
(* element count of a list.                                                *)
(***************************************************************************)
Scalar(type, text) == [type |-> type, lit |-> text, members |-> << >>, n |-> 0]
Object(members) == [type |-> "object", lit |-> "", members |-> members, n |-> 0]
List(n) == [type |-> "list", lit |-> "", members |-> << >>, n |-> n]

PyFalse == Scalar("bool", "false")
PyStr(text) == Scalar("str", text)

\* A parse step: the position after the value (0 when the text is no JSON)
\* and the value.
ParseFail == [next |-> 0, val |-> Scalar("null", "null")]

RECURSIVE ParseValue(_, _)
RECURSIVE ParseMembers(_, _, _, _)
RECURSIVE ParseElems(_, _, _, _)

ParseValue(s, i) ==
  IF i > Len(s) THEN ParseFail
  ELSE CASE s[i].t = "lit" -> [next |-> i + 1, val |-> Scalar(s[i].k, s[i].v)]
         [] s[i].t = "lbrace" -> ParseMembers(s, i + 1, << >>, TRUE)
         [] s[i].t = "lbrack" -> ParseElems(s, i + 1, 0, TRUE)
         [] OTHER -> ParseFail

ParseMembers(s, i, acc, first) ==
  IF i > Len(s) THEN ParseFail
  ELSE IF s[i].t = "rbrace" /\ first THEN [next |-> i + 1, val |-> Object(acc)]
  ELSE IF s[i].t # "key" THEN ParseFail
  ELSE LET r == ParseValue(s, i + 1)
           j == r.next
           acc2 == Append(acc, [key |-> s[i].v, val |-> r.val])
       IN IF j = 0 \/ j > Len(s) THEN ParseFail
          ELSE IF s[j].t = "comma" THEN ParseMembers(s, j + 1, acc2, FALSE)
          ELSE IF s[j].t = "rbrace" THEN [next |-> j + 1, val |-> Object(acc2)]
          ELSE ParseFail

ParseElems(s, i, count, first) ==
  IF i > Len(s) THEN ParseFail
  ELSE IF s[i].t = "rbrack" /\ first THEN [next |-> i + 1, val |-> List(count)]
  ELSE LET r == ParseValue(s, i)
           j == r.next
       IN IF j = 0 \/ j > Len(s) THEN ParseFail
          ELSE IF s[j].t = "comma" THEN ParseElems(s, j + 1, count + 1, FALSE)
          ELSE IF s[j].t = "rbrack" THEN [next |-> j + 1, val |-> List(count + 1)]
          ELSE ParseFail

\* Whitespace between JSON tokens is insignificant.
NoWs(s) == SelectSeq(s, LAMBDA x : x.t # "ws")

\* json.loads(text): [ok, val]; ok = FALSE is json.JSONDecodeError.
JsonLoads(text) ==
  LET s == NoWs(text)
      r == ParseValue(s, 1)
  IN [ok |-> r.next = Len(s) + 1, val |-> r.val]

\* dict.get(key, default): the last pair with that key wins.
DictGet(val, key, default) ==
  LET hits == SelectSeq(val.members, LAMBDA m : m.key = key)
  IN IF hits = << >> THEN default ELSE hits[Len(hits)].val

\* Python truth value of a JSON value.
Truthy(val) ==
  CASE val.type = "bool" -> val.lit = "true"
    [] val.type = "str" -> val.lit # ""
    [] val.type = "num" -> val.lit # "0"
    [] val.type = "null" -> FALSE
    [] val.type = "object" -> val.members # << >>
    [] val.type = "list" -> val.n > 0

(***************************************************************************)
(* The remote endpoint.  An outcome of requests.post is a transport        *)
(* failure, a non-2xx status, or a decoded body.  A body is                *)
(* [has_choices, choices]; a choice is [message, content, text] where      *)
(* message is "present" or "absent" and content is "str", "null" or        *)
(* "absent".                                                               *)
(***************************************************************************)
Choice(message, content, text) == [message |-> message, content |-> content, text |-> text]
Body(has_choices, choices) == [kind |-> "body", has_choices |-> has_choices, choices |-> choices]
Failure(kind) == [kind |-> kind, has_choices |-> FALSE, choices |-> << >>]
Completion(text) == Body(TRUE, << Choice("present", "str", text) >>)

Hint == Lit("str", "hint")
IsCorrect == Key("is_correct")
Explanation == Key("explanation")

\* Completion texts the endpoint may return.
CompletionTexts ==
  { \* reasoning block, then the object the prompt asks for (correct)
    << Prose, ThinkClose, WS, LB, IsCorrect, JTrue, Comma, WS, Explanation, Hint, RB, WS >>,
    \* the object the prompt asks for (incorrect), fenced
    << Fence, WS, LB, IsCorrect, JFalse, Comma, Explanation, Hint, RB, WS, Fence >>,
    \* prose without any object
    << Prose, WS, Prose >>,
    \* the empty completion
    << >>,
    \* prose with unbalanced braces
    << Prose, RB, WS, LB >>,
    \* valid JSON that is no object
    << Lit("num", "5") >>,
    << Lit("str", "ok") >>,
    << JNull >>,
    << JTrue >>,
    << LK, Lit("num", "1"), Comma, Lit("num", "2"), RK >>,
    \* objects that do not follow the verdict schema
    << LB, RB >>,
    << LB, Explanation, Hint, RB >>,
    << LB, IsCorrect, JTrue, RB >>,
    << LB, IsCorrect, Lit("str", "false"), Comma, Explanation, Hint, RB >>,
    << LB, IsCorrect, JFalse, Comma, Explanation, JNull, RB >>,
    << LB, IsCorrect, JFalse, Comma, Explanation, Lit("str", ""), RB >> }

RemoteOutcomes ==
  { Failure("ConnectionError"), Failure("Timeout"), Failure("HTTPError"),
    Body(FALSE, << >>),
    Body(TRUE, << >>),
    Body(TRUE, << Choice("absent", "absent", << >>) >>),
    Body(TRUE, << Choice("present", "absent", << >>) >>),
    Body(TRUE, << Choice("present", "null", << >>) >>) }
  \cup { Completion(text) : text \in CompletionTexts }

\* llm_service.py:101
UnexpectedResponseJson ==
  << LB, IsCorrect, JFalse, Comma, WS, Explanation,
     Lit("str", "Sorry, I received an unexpected response from the AI."), RB >>

\* llm_service.py:106
ConnectFailureJson ==
  << LB, IsCorrect, JFalse, Comma, WS, Explanation,
     Lit("str", "Sorry, I was unable to connect to the evaluation service."), RB >>

Returned(text) == [raised |-> "none", value |-> text]
Raised(exc) == [raised |-> exc, value |-> << >>]

\* llm_service.py:66-106.  Only requests.exceptions.RequestException is
\* caught; a KeyError or TypeError of the body's traversal propagates.
call_llm(outcome) ==
  IF outcome.kind # "body" THEN Returned(ConnectFailureJson)
  ELSE IF outcome.has_choices /\ outcome.choices # << >>
  THEN LET choice == outcome.choices[1]
       IN IF choice.message = "absent" THEN Raised("KeyError")
          ELSE IF choice.content = "absent" THEN Raised("KeyError")
          ELSE IF choice.content = "null" THEN Raised("TypeError")
          ELSE Returned(ParseResponse(choice.text))
  ELSE Returned(UnexpectedResponseJson)

\* agent.py:103-109.  [raised, feedback, is_correct]
Evaluate(llm_response_str) ==
  LET evaluation == JsonLoads(llm_response_str)
  IN IF ~evaluation.ok
     THEN [raised |-> "none",
           feedback |-> PyStr("An error occurred during evaluation. Let's proceed."),
           is_correct |-> PyFalse]
     ELSE IF evaluation.val.type # "object"
     THEN [raised |-> "AttributeError", feedback |-> PyStr(""), is_correct |-> PyFalse]
     ELSE [raised |-> "none",
           feedback |-> DictGet(evaluation.val, "explanation", PyStr("I've noted that.")),
           is_correct |-> DictGet(evaluation.val, "is_correct", PyFalse)]

(***************************************************************************)
(* The agent (agent.py).  A turn of history is [role, content, q]: content *)
(* names the kind of message and q is the 1-based position a question turn *)
(* announces (0 for other turns).                                          *)
(***************************************************************************)
VARIABLES
  state,                          \* self.state
  history,                        \* self.history
  interview_playlist,             \* self.interview_playlist (question ids)
  current_question_index,         \* self.current_question_index
  attempts_for_current_question,  \* self.attempts_for_current_question
  requests,                       \* the call_llm requests sent so far, in order
  last_call,                      \* the method called last
  raised,                         \* the exception the last call propagated, or "none"
  reply,                          \* the endpoint's outcome for the last call's request
  response                        \* the value the last call returned

VARIABLES
  question_bank,                  \* the file question_bank.json
  interview_config,               \* the constructor's interview_config
  all_questions                   \* self.all_questions

buildVars == << question_bank, interview_config, all_questions >>

agentVars == << state, history, interview_playlist, current_question_index,
                attempts_for_current_question, requests, last_call, raised, reply,
                response >>

VARIABLES
  embedding,                      \* how the text handed to _parse_response was put together
  full_response,                  \* _parse_response's argument
  json_string                     \* _parse_response's return value

parseVars == << embedding, full_response, json_string >>

VARIABLES
  interview_started,              \* st.session_state.interview_started
  show_next_btn                   \* st.session_state.show_next_btn

shellVars == << interview_started, show_next_btn >>

vars == << agentVars, buildVars, parseVars, shellVars >>

\* A text put together from a reasoning block, a prefix, a JSON object and
\* a suffix.
Embedding(reasoning, prefix, object, suffix) ==
  [reasoning |-> reasoning, prefix |-> prefix, object |-> object, suffix |-> suffix]

\* No text was handed to _parse_response.
ParseIdle ==
  /\ embedding = Embedding(<< >>, << >>, << >>, << >>)
  /\ full_response = << >>
  /\ json_string = << >>

\* No session of the web application is running.
ShellIdle ==
  /\ interview_started = FALSE
  /\ show_next_btn = FALSE

Turn(role, content, q) == [role |-> role, content |-> content, q |-> q]
QuestionTurn(q) == Turn("assistant", "question", q)
UserTurn == Turn("user", "user_input", 0)
FeedbackTurn == Turn("assistant", "feedback", 0)
FarewellTurn == Turn("assistant", "conclusion_message", 0)
SummaryTurn == Turn("assistant", "summary_report", 0)

\* A request handed to call_llm: the evaluation prompt carries the text and
\* the reference formula of question q; the summary prompt carries none.
EvaluationRequest(q) == [purpose |-> "evaluation", q |-> q]
SummaryRequest == [purpose |-> "summary", q |-> 0]

PyNone == [role |-> "None"]

\* No request was sent.
NoReply == Failure("none")

\* The agent's fields and the observable result of a call, as one record.
Self ==
  [state |-> state, history |-> history,
   current_question_index |-> current_question_index,
   attempts_for_current_question |-> attempts_for_current_question,
   requests |-> requests, raised |-> "none", reply |-> NoReply, response |-> PyNone]

\* call_llm posting again after a failed post (one automatic retry).
PostWithRetry(sent, request, outcome) ==
  IF outcome.kind # "body" THEN sent \o << request, request >> ELSE Append(sent, request)

\* llm_service.py:87  one requests.post per call_llm, whatever its outcome
Post(sent, request, outcome) == Append(sent, request)

\* conclude_interview with the state assignment moved behind the summary
\* call, so that a raising call leaves the state as it was.
conclude_interview_state_last(self, outcome) ==
  LET s1 == [self EXCEPT !.history = Append(@, FarewellTurn),
                         !.requests = Append(@, SummaryRequest),
                         !.reply = outcome]
      summary_report == call_llm(outcome)
  IN IF summary_report.raised # "none"
     THEN [s1 EXCEPT !.raised = summary_report.raised]
     ELSE [s1 EXCEPT !.state = "CONCLUSION", !.history = Append(@, SummaryTurn)]

\* agent.py:124-135
conclude_interview(self, outcome) ==
  LET s1 == [self EXCEPT !.state = "CONCLUSION",
                         !.history = Append(@, FarewellTurn),
                         !.requests = Post(@, SummaryRequest, outcome),
                         !.reply = outcome]
      summary_report == call_llm(outcome)
  IN IF summary_report.raised # "none"
     THEN [s1 EXCEPT !.raised = summary_report.raised]
     ELSE [s1 EXCEPT !.history = Append(@, SummaryTurn)]

\* agent.py:67-79
get_next_question(self, outcome) ==
  IF self.current_question_index >= Len(interview_playlist)
  THEN conclude_interview(self, outcome)
  ELSE [self EXCEPT !.attempts_for_current_question = 0,
                    !.history = Append(@, QuestionTurn(self.current_question_index + 1)),
                    !.state = "EVALUATING"]

\* agent.py:62-65
start_interview(self, outcome) ==
  get_next_question([self EXCEPT !.state = "ASKING_QUESTION"], outcome)

\* The out-of-turn guard testing only for the end of the interview.
AwaitingAnswerUnlessConcluded(self) == self.state # "CONCLUSION"

\* agent.py:93  the guard against answers submitted out of turn
AwaitingAnswer(self) == self.state = "EVALUATING"

\* The advance test without the verdict: only the attempt cap advances.
ShouldAdvanceCapOnly(is_correct, attempts) == attempts >= MaxAttempts

\* agent.py:114
ShouldAdvance(is_correct, attempts) == Truthy(is_correct) \/ attempts >= MaxAttempts

\* agent.py:81-122
process_user_response(self, outcome) ==
  LET s1 == [self EXCEPT !.history = Append(@, UserTurn)]
  IN IF ~AwaitingAnswer(s1)
     THEN [s1 EXCEPT !.response = [role |-> "assistant",
                                   content |-> PyStr("Let's move to the next question.")]]
     ELSE IF s1.current_question_index >= Len(interview_playlist)
     THEN [s1 EXCEPT !.raised = "IndexError"]
     ELSE LET current_q == interview_playlist[s1.current_question_index + 1]
              s2 == [s1 EXCEPT !.attempts_for_current_question = @ + 1,
                               !.requests = Post(@, EvaluationRequest(current_q), outcome),
                               !.reply = outcome]
              llm_response_str == call_llm(outcome)
              evaluation == Evaluate(llm_response_str.value)
          IN IF llm_response_str.raised # "none"
             THEN [s2 EXCEPT !.raised = llm_response_str.raised]
             ELSE IF evaluation.raised # "none"
             THEN [s2 EXCEPT !.raised = evaluation.raised]
             ELSE LET s3 == [s2 EXCEPT !.history = Append(@, FeedbackTurn)]
                      s4 == IF ShouldAdvance(evaluation.is_correct,
                                             s3.attempts_for_current_question)
                            THEN [s3 EXCEPT !.current_question_index = @ + 1]
                            ELSE s3
                  IN [s4 EXCEPT !.response =
                        [role |-> "assistant",
                         content |-> evaluation.feedback,
                         is_correct |-> evaluation.is_correct,
                         attempts |-> s4.attempts_for_current_question]]

(***************************************************************************)
(* Construction (agent.py:23-60).  A question is named by an integer       *)
(* unique in the bank.  A repository maps some of the difficulties to      *)
(* their pools; the file is [status, content] with status "ok", "absent"   *)
(* (no such file) or "corrupt" (not JSON).                                 *)
(***************************************************************************)
Difficulties == { "easy", "medium", "hard" }

Min(a, b) == IF a <= b THEN a ELSE b

\* The questions a, a+1, ..., b as a pool.
Ids(a, b) == [i \in 1..(b - a + 1) |-> a + i - 1]

\* agent.py:46
EmptyRepository == [d \in Difficulties |-> << >>]

BankFile(status, content) == [status |-> status, content |-> content]

\* agent.py:38-46.  Only FileNotFoundError is caught.
load_questions(file) ==
  IF file.status = "absent" THEN [raised |-> "none", value |-> EmptyRepository]
  ELSE IF file.status = "corrupt"
  THEN [raised |-> "JSONDecodeError", value |-> EmptyRepository]
  ELSE [raised |-> "none", value |-> file.content]

\* random.choices: k draws with replacement.
SampleWithReplacement(population, k) ==
  { [i \in 1..k |-> population[f[i]]] : f \in [1..k -> 1..Len(population)] }

\* agent.py:55  random.sample(population, k): k draws without replacement.
Sample(population, k) ==
  { [i \in 1..k |-> population[f[i]]] :
      f \in { g \in [1..k -> 1..Len(population)] :
                \A i, j \in 1..k : i # j => g[i] # g[j] } }

\* agent.py:58  random.shuffle: any order of the same elements.
Shuffle(playlist) ==
  { [i \in 1..Len(playlist) |-> playlist[f[i]]] :
      f \in { g \in [1..Len(playlist) -> 1..Len(playlist)] :
                \A i, j \in 1..Len(playlist) : i # j => g[i] # g[j] } }

\* agent.py:52-55  what one difficulty of the configuration contributes.
Selected(config, repository, difficulty) ==
  IF difficulty \in DOMAIN config /\ difficulty \in DOMAIN repository
  THEN Sample(repository[difficulty],
              Min(config[difficulty], Len(repository[difficulty])))
  ELSE { << >> }

\* agent.py:48-60  the playlists _prepare_interview_playlist may return.
prepare_interview_playlist(config, repository) ==
  UNION { Shuffle(e \o m \o h) :
            << e, m, h >> \in Selected(config, repository, "easy")
                               \X Selected(config, repository, "medium")
                               \X Selected(config, repository, "hard") }

\* app.py:14
INTERVIEW_CONFIG == [easy |-> 2, medium |-> 2, hard |-> 1]

\* A bank of n questions from which INTERVIEW_CONFIG selects all n.
SessionBank(n) ==
  LET e == Min(n, INTERVIEW_CONFIG.easy)
      m == Min(n - e, INTERVIEW_CONFIG.medium)
      h == Min(n - e - m, INTERVIEW_CONFIG.hard)
  IN BankFile("ok", [easy |-> Ids(1, e), medium |-> Ids(e + 1, e + m),
                     hard |-> Ids(e + m + 1, e + m + h)])

\* agent.py:23-36 with a playlist of n questions, named by position.
Playlist(n) == [i \in 1..n |-> i]

\* The agent as constructed over a bank of up to MaxPlaylist questions; of
\* the orders the shuffle may produce, the one by position stands for all.
Init ==
  /\ state = "INTRODUCTION"
  /\ history = << >>
  /\ \E n \in 0..MaxPlaylist :
       /\ question_bank = SessionBank(n)
       /\ interview_playlist = Playlist(n)
  /\ interview_config = INTERVIEW_CONFIG
  /\ all_questions = load_questions(question_bank).value
  /\ interview_playlist \in prepare_interview_playlist(interview_config, all_questions)
  /\ current_question_index = 0
  /\ attempts_for_current_question = 0
  /\ requests = << >>
  /\ last_call = "__init__"
  /\ raised = "none"
  /\ reply = NoReply
  /\ response = PyNone
  /\ ParseIdle
  /\ ShellIdle

\* The call `name` took the agent to `self2`.
Becomes(name, self2) ==
  /\ state' = self2.state
  /\ history' = self2.history
  /\ current_question_index' = self2.current_question_index
  /\ attempts_for_current_question' = self2.attempts_for_current_question
  /\ requests' = self2.requests
  /\ raised' = self2.raised
  /\ reply' = self2.reply
  /\ response' = self2.response
  /\ last_call' = name
  /\ UNCHANGED interview_playlist

\* Every call appends at most two turns.
Room == Len(history) + 2 <= MaxHistory

StartInterview ==
  /\ Room
  /\ \E outcome \in RemoteOutcomes :
       Becomes("start_interview", start_interview(Self, outcome))
  /\ UNCHANGED << buildVars, parseVars, shellVars >>

GetNextQuestion ==
  /\ Room
  /\ \E outcome \in RemoteOutcomes :
       Becomes("get_next_question", get_next_question(Self, outcome))
  /\ UNCHANGED << buildVars, parseVars, shellVars >>

ProcessUserResponse ==
  /\ Room
  /\ \E outcome \in RemoteOutcomes :
       Becomes("process_user_response", process_user_response(Self, outcome))
  /\ UNCHANGED << buildVars, parseVars, shellVars >>

Next == StartInterview \/ GetNextQuestion \/ ProcessUserResponse

Spec == Init /\ [][Next]_vars

(***************************************************************************)
(* Construction as a step: the file and the configuration are the inputs,  *)
(* ExcelInterviewerAgent(interview_config) is the call, and the first      *)
(* start_interview follows it.                                             *)
(***************************************************************************)
\* Repositories of at most MaxBank questions, numbered pool after pool; a
\* difficulty may be missing from the file.
Repositories ==
  UNION { { [d \in keys |->
               CASE d = "easy" -> Ids(1, sz["easy"])
                 [] d = "medium" -> Ids(sz["easy"] + 1, sz["easy"] + sz["medium"])
                 [] d = "hard" -> Ids(sz["easy"] + sz["medium"] + 1,
                                      sz["easy"] + sz["medium"] + sz["hard"])] :
              sz \in { z \in [Difficulties -> 0..MaxBank] :
                         /\ z["easy"] + z["medium"] + z["hard"] <= MaxBank
                         /\ \A d \in Difficulties \ keys : z[d] = 0 } } :
          keys \in SUBSET Difficulties }

QuestionBanks ==
  { BankFile("absent", EmptyRepository), BankFile("corrupt", EmptyRepository) }
  \cup { BankFile("ok", repository) : repository \in Repositories }

\* Configurations: a requested count for some of the difficulties.
Configs == UNION { [keys -> 0..MaxCount] : keys \in SUBSET Difficulties }

BuildInit ==
  /\ question_bank \in QuestionBanks
  /\ interview_config \in Configs
  /\ all_questions = EmptyRepository
  /\ state = "INTRODUCTION"
  /\ history = << >>
  /\ interview_playlist = << >>
  /\ current_question_index = 0
  /\ attempts_for_current_question = 0
  /\ requests = << >>
  /\ last_call = "none"
  /\ raised = "none"
  /\ reply = NoReply
  /\ response = PyNone
  /\ ParseIdle
  /\ ShellIdle

\* agent.py:23-36  ExcelInterviewerAgent(interview_config)
Construct ==
  /\ last_call = "none"
  /\ last_call' = "__init__"
  /\ LET loaded == load_questions(question_bank)
     IN IF loaded.raised # "none"
        THEN /\ raised' = loaded.raised
             /\ UNCHANGED << all_questions, interview_playlist >>
        ELSE /\ raised' = "none"
             /\ all_questions' = loaded.value
             /\ interview_playlist' \in
                  prepare_interview_playlist(interview_config, loaded.value)
  /\ UNCHANGED << state, history, current_question_index,
                  attempts_for_current_question, requests, reply, response,
                  question_bank, interview_config, parseVars, shellVars >>

\* The first start_interview of a constructed agent.
FirstStart ==
  /\ last_call = "__init__"
  /\ raised = "none"
  /\ StartInterview

BuildNext == Construct \/ FirstStart

SpecBuild == BuildInit /\ [][BuildNext]_vars

(***************************************************************************)
(* _parse_response on its own: a text is put together from a reasoning     *)
(* block, a prefix, a JSON object and a suffix, and handed to the          *)
(* function.                                                               *)
(***************************************************************************)
\* Sequences over alphabet of length at most n.
RECURSIVE SeqsUpTo(_, _)
SeqsUpTo(alphabet, n) ==
  IF n = 0 THEN { << >> }
  ELSE LET shorter == SeqsUpTo(alphabet, n - 1)
       IN shorter \cup { Append(w, a) : w \in shorter, a \in alphabet }

\* Text around the object: whitespace, prose, braces and the marker.
Affixes == SeqsUpTo({ WS, Prose, LB, RB, ThinkClose }, MaxAffix)

\* Reasoning blocks: none, prose, prose with braces; each ends in the marker.
ReasoningBlocks ==
  { << >>, << Prose, ThinkClose >>, << LB, Prose, RB, ThinkClose >> }

\* Valid JSON objects: empty, the verdict, one with an object inside.
EmbeddedObjects ==
  { << LB, RB >>,
    << LB, IsCorrect, JTrue, Comma, WS, Explanation, Hint, RB >>,
    << LB, Explanation, LB, IsCorrect, JFalse, RB, RB >> }

ParseInit ==
  /\ embedding \in { Embedding(r, p, o, x) :
                       r \in ReasoningBlocks, p \in Affixes,
                       o \in EmbeddedObjects, x \in Affixes }
  /\ full_response =
       embedding.reasoning \o embedding.prefix \o embedding.object \o embedding.suffix
  /\ json_string = << >>
  /\ state = "INTRODUCTION"
  /\ history = << >>
  /\ interview_playlist = << >>
  /\ current_question_index = 0
  /\ attempts_for_current_question = 0
  /\ requests = << >>
  /\ last_call = "none"
  /\ raised = "none"
  /\ reply = NoReply
  /\ response = PyNone
  /\ question_bank = BankFile("absent", EmptyRepository)
  /\ interview_config = INTERVIEW_CONFIG
  /\ all_questions = EmptyRepository
  /\ ShellIdle

\* llm_service.py:95  json_string = _parse_response(full_response_content)
Parse ==
  /\ last_call = "none"
  /\ last_call' = "_parse_response"
  /\ json_string' = ParseResponse(full_response)
  /\ UNCHANGED << state, history, interview_playlist, current_question_index,
                  attempts_for_current_question, requests, raised, reply, response,
                  buildVars, embedding, full_response, shellVars >>

ParseNext == Parse

SpecParse == ParseInit /\ [][ParseNext]_vars

(***************************************************************************)
(* The web application of app.py: a session holds the agent and two flags, *)
(* and each script run serves the one control the flags and the agent's    *)
(* state select.                                                           *)
(***************************************************************************)
WelcomeTurn == Turn("assistant", "welcome_msg", 0)

\* The session initialisation leaving the transcript as the agent made it.
WelcomeSkipped(transcript) == transcript

\* app.py:36-37  the welcome message is appended to the agent's history
Welcome(transcript) == Append(transcript, WelcomeTurn)

\* app.py:29-37  the first script run of a session
AppInit ==
  /\ state = "INTRODUCTION"
  /\ history = Welcome(<< >>)
  /\ \E n \in 0..MaxPlaylist :
       /\ question_bank = SessionBank(n)
       /\ interview_playlist = Playlist(n)
  /\ interview_config = INTERVIEW_CONFIG
  /\ all_questions = load_questions(question_bank).value
  /\ interview_playlist \in prepare_interview_playlist(interview_config, all_questions)
  /\ current_question_index = 0
  /\ attempts_for_current_question = 0
  /\ requests = << >>
  /\ last_call = "__init__"
  /\ raised = "none"
  /\ reply = NoReply
  /\ response = PyNone
  /\ interview_started = FALSE
  /\ show_next_btn = FALSE
  /\ ParseIdle

\* Every call appends at most two turns.
AppRoom == Len(history) + 2 <= MaxTranscript

\* app.py:81  response.get("is_correct") or response.get("attempts", 0) >= 2
ShowNext(result) ==
  \/ "is_correct" \in DOMAIN result /\ Truthy(result.is_correct)
  \/ "attempts" \in DOMAIN result /\ result.attempts >= MaxAttempts

\* app.py:49-53  "Restart Interview": the session is cleared and the rerun
\* initialises a new one, with a newly drawn playlist.
PressRestart ==
  /\ state = "CONCLUSION"
  /\ state' = "INTRODUCTION"
  /\ history' = Welcome(<< >>)
  /\ all_questions' = load_questions(question_bank).value
  /\ interview_playlist' \in
       prepare_interview_playlist(interview_config, load_questions(question_bank).value)
  /\ current_question_index' = 0
  /\ attempts_for_current_question' = 0
  /\ requests' = << >>
  /\ last_call' = "__init__"
  /\ raised' = "none"
  /\ reply' = NoReply
  /\ response' = PyNone
  /\ interview_started' = FALSE
  /\ show_next_btn' = FALSE
  /\ UNCHANGED << question_bank, interview_config, parseVars >>

\* app.py:56-61  "Start Interview"
PressStart ==
  /\ state # "CONCLUSION"
  /\ ~interview_started
  /\ AppRoom
  /\ interview_started' = TRUE
  /\ \E outcome \in RemoteOutcomes :
       Becomes("start_interview", start_interview(Self, outcome))
  /\ UNCHANGED << show_next_btn, buildVars, parseVars >>

\* app.py:66-72  "Next Question"
PressNext ==
  /\ state # "CONCLUSION"
  /\ interview_started
  /\ show_next_btn
  /\ AppRoom
  /\ show_next_btn' = FALSE
  /\ \E outcome \in RemoteOutcomes :
       Becomes("get_next_question", get_next_question(Self, outcome))
  /\ UNCHANGED << interview_started, buildVars, parseVars >>

\* app.py:73-84  the chat input; an exception ends the script run before
\* line 81.
SubmitAnswer ==
  /\ state # "CONCLUSION"
  /\ interview_started
  /\ ~show_next_btn
  /\ AppRoom
  /\ \E outcome \in RemoteOutcomes :
       LET self2 == process_user_response(Self, outcome)
       IN /\ Becomes("process_user_response", self2)
          /\ show_next_btn' = IF self2.raised = "none" /\ ShowNext(self2.response)
                               THEN TRUE
                               ELSE show_next_btn
  /\ UNCHANGED << interview_started, buildVars, parseVars >>

AppNext == PressRestart \/ PressStart \/ PressNext \/ SubmitAnswer

SpecApp == AppInit /\ [][AppNext]_vars

(***************************************************************************)
(* Vocabulary of the properties.                                           *)
(***************************************************************************)
Last(s) == s[Len(s)]

\* The position announced by the last question turn of a transcript, 0 when
\* no question was presented.
RECURSIVE LastPresented(_)
LastPresented(h) ==
  IF h = << >> THEN 0
  ELSE IF Last(h).content = "question" THEN Last(h).q
  ELSE LastPresented(SubSeq(h, 1, Len(h) - 1))

\* The step is a call of the named method (every call appends a turn).
Calls(name) == last_call' = name /\ history' # history

\* The last call returned a verdict and the code took it for a pass.
GradedCorrect == "is_correct" \in DOMAIN response /\ Truthy(response.is_correct)

\* The last call returned a verdict and the code took it for a failure.
GradedIncorrect == "is_correct" \in DOMAIN response /\ ~Truthy(response.is_correct)

\* A question has been presented and not yet advanced past.
QuestionPending ==
  /\ state = "EVALUATING"
  /\ LastPresented(history) = current_question_index + 1

\* conclude_interview has run to its end.
Concluded ==
  /\ state = "CONCLUSION"
  /\ \E i \in 1..Len(history) : history[i] = SummaryTurn

\* C1: whenever state is EVALUATING, attempts_for_current_question is at
\* most 2.
C1_AttemptsAtMostTwo ==
  state = "EVALUATING" => attempts_for_current_question <= MaxAttempts

\* C2: on a presented question, a first submission graded incorrect leaves
\* current_question_index unchanged with attempts 1, and the second
\* submission increments current_question_index by exactly 1 whatever the
\* grading produced.
C2_SecondSubmissionAdvances ==
  [][ (Calls("process_user_response") /\ QuestionPending) =>
        /\ (attempts_for_current_question = 0 /\ GradedIncorrect') =>
             /\ current_question_index' = current_question_index
             /\ attempts_for_current_question' = 1
        /\ attempts_for_current_question = 1 =>
             current_question_index' = current_question_index + 1 ]_vars

\* C3: a submission graded correct on the first attempt at a presented
\* question increments current_question_index by exactly 1, leaves attempts
\* at 1, keeps the phase and appends only the user turn and the feedback
\* turn (no question turn).
C3_FirstCorrectAdvances ==
  [][ (Calls("process_user_response") /\ QuestionPending
       /\ attempts_for_current_question = 0 /\ GradedCorrect') =>
        /\ current_question_index' = current_question_index + 1
        /\ attempts_for_current_question' = 1
        /\ response'.attempts = 1
        /\ state' = state
        /\ history' = history \o << UserTurn, FeedbackTurn >> ]_vars

C3_Witness ==
  /\ last_call = "process_user_response"
  /\ GradedCorrect
  /\ response.attempts = 1
  /\ state = "EVALUATING"
  /\ LastPresented(history) = current_question_index

\* C4: process_user_response called while state is not EVALUATING sends no
\* request and leaves state, current_question_index and
\* attempts_for_current_question unchanged; it only appends the user turn.
C4_OutOfTurnNoEffect ==
  [][ (Calls("process_user_response") /\ state # "EVALUATING") =>
        /\ requests' = requests
        /\ reply' = NoReply
        /\ raised' = "none"
        /\ state' = state
        /\ current_question_index' = current_question_index
        /\ attempts_for_current_question' = attempts_for_current_question
        /\ history' = Append(history, UserTurn) ]_vars

C4_Witness ==
  /\ last_call = "process_user_response"
  /\ state = "INTRODUCTION"
  /\ Last(history) = UserTurn
  /\ current_question_index < Len(interview_playlist)

\* C5: once conclude_interview has run, every later call leaves
\* current_question_index, attempts_for_current_question and the transcript
\* unchanged and sends no further summary request.
C5_FrozenAfterConclusion ==
  [][ Concluded =>
        /\ current_question_index' = current_question_index
        /\ attempts_for_current_question' = attempts_for_current_question
        /\ history' = history
        /\ requests' = requests ]_vars

\* C6: CONCLUSION is terminal: a call made in state CONCLUSION ends in
\* state CONCLUSION.
C6_ConclusionTerminal ==
  [][ state = "CONCLUSION" => state' = "CONCLUSION" ]_vars

C6_Witness ==
  /\ state = "CONCLUSION"
  /\ last_call = "start_interview"
  /\ Len(SelectSeq(history, LAMBDA t : t = FarewellTurn)) >= 2

\* C7: the first get_next_question made with current_question_index equal
\* to the playlist length (directly or from start_interview) sets state to
\* CONCLUSION and appends exactly the farewell turn and the summary turn,
\* with exactly one request.
C7_ConclusionAppendsTwoTurns ==
  [][ (/\ Calls("get_next_question") \/ Calls("start_interview")
       /\ state # "CONCLUSION"
       /\ current_question_index = Len(interview_playlist)) =>
        /\ state' = "CONCLUSION"
        /\ history' = history \o << FarewellTurn, SummaryTurn >>
        /\ requests' = Append(requests, SummaryRequest) ]_vars

\* C8: a call that sends a request to the endpoint does not raise, whatever
\* the endpoint's outcome.
C8_NeverRaises ==
  [][ requests' # requests => raised' = "none" ]_vars

\* The reply is a completion whose extracted text is a JSON object carrying
\* a boolean is_correct and a string explanation.
CarriesVerdict(outcome) ==
  /\ outcome.kind = "body"
  /\ outcome.has_choices
  /\ outcome.choices # << >>
  /\ outcome.choices[1].content = "str"
  /\ LET parsed == JsonLoads(ParseResponse(outcome.choices[1].text))
     IN /\ parsed.ok
        /\ parsed.val.type = "object"
        /\ \E i \in 1..Len(parsed.val.members) : parsed.val.members[i].key = "is_correct"
        /\ \E i \in 1..Len(parsed.val.members) : parsed.val.members[i].key = "explanation"
        /\ DictGet(parsed.val, "is_correct", PyFalse).type = "bool"
        /\ DictGet(parsed.val, "explanation", PyFalse).type = "str"

\* C9: a submission whose grading reply is a failure or carries no verdict
\* of the schema is returned with is_correct false and a non-empty
\* explanation, and advances current_question_index only at the attempt cap.
C9_PessimisticSafe ==
  [][ (/\ Calls("process_user_response")
       /\ reply' # NoReply
       /\ ~CarriesVerdict(reply')
       /\ raised' = "none") =>
        /\ response'.is_correct = PyFalse
        /\ response'.content.type = "str"
        /\ response'.content.lit # ""
        /\ (current_question_index' # current_question_index =>
              attempts_for_current_question' >= MaxAttempts) ]_vars

\* C10: no question is skipped: every answer is graded against the question
\* most recently presented, and current_question_index moves only past a
\* presented question.
C10_NoQuestionSkipped ==
  [][ (requests' # requests /\ Last(requests').purpose = "evaluation") =>
        /\ LastPresented(history) = current_question_index + 1
        /\ Last(requests').q = interview_playlist[LastPresented(history)] ]_vars

\* The number of evaluation requests sent for question q.
EvaluationsOf(q, sent) == Len(SelectSeq(sent, LAMBDA r : r = EvaluationRequest(q)))

\* The step appends the prompt of a question.
Presents == Len(history') = Len(history) + 1 /\ Last(history').content = "question"

\* The step sends an evaluation request.
Grades == requests' # requests /\ Last(requests').purpose = "evaluation"

\* C11: attempts_for_current_question is set to 0 only by a step that
\* presents a playlist position not presented before, it is incremented by
\* exactly 1 per graded submission, and no playlist question receives more
\* than two graded submissions.
C11_AttemptsPerQuestion ==
  [][ /\ Presents => \A i \in 1..Len(history) : history[i] # Last(history')
      /\ (attempts_for_current_question' = 0 /\ attempts_for_current_question # 0)
           => Presents
      /\ Grades => attempts_for_current_question' = attempts_for_current_question + 1
      /\ \A i \in 1..Len(interview_playlist) :
           EvaluationsOf(interview_playlist[i], requests') <= MaxAttempts ]_vars

\* C12: start_interview takes effect only from INTRODUCTION, where it ends
\* in EVALUATING with question 1 presented and attempts 0 (CONCLUSION when
\* the playlist is empty); in any later phase it leaves state,
\* current_question_index, attempts_for_current_question and the transcript
\* unchanged.
C12_StartOnlyFromIntroduction ==
  [][ Calls("start_interview") =>
        IF state = "INTRODUCTION"
        THEN IF interview_playlist = << >>
             THEN state' = "CONCLUSION"
             ELSE /\ state' = "EVALUATING"
                  /\ Last(history') = QuestionTurn(1)
                  /\ attempts_for_current_question' = 0
        ELSE /\ state' = state
             /\ current_question_index' = current_question_index
             /\ attempts_for_current_question' = attempts_for_current_question
             /\ history' = history ]_vars

\* C17: a call sends at most one request to the endpoint, and a transport
\* failure during grading is not retried: it consumes one attempt, sends
\* exactly one request and comes back as an incorrect verdict.
C17_OneRequestPerCall ==
  [][ /\ Len(requests') <= Len(requests) + 1
      /\ (Calls("process_user_response")
          /\ reply'.kind \in { "ConnectionError", "Timeout", "HTTPError" }) =>
           /\ Len(requests') = Len(requests) + 1
           /\ Grades
           /\ attempts_for_current_question' = attempts_for_current_question + 1
           /\ raised' = "none"
           /\ GradedIncorrect' ]_vars

C17_Witness ==
  /\ last_call = "process_user_response"
  /\ reply.kind = "Timeout"
  /\ Len(requests) = 1
  /\ attempts_for_current_question = 1
  /\ GradedIncorrect

\* C18: process_user_response never reads interview_playlist at an index
\* beyond its last element: no call ends in an IndexError.
C18_NoIndexError == raised # "IndexError"

\* The difficulties present in the configuration and in the repository.
Drawn == DOMAIN interview_config \cap DOMAIN all_questions

\* The number of questions difficulty d contributes by the claim.
Quota(d) == IF d \in Drawn THEN Min(interview_config[d], Len(all_questions[d])) ELSE 0

\* C13: the built playlist has as many questions as the sum, over the
\* difficulties present in configuration and repository, of min(requested
\* count, pool size); it holds each pool entry at most once; it holds the
\* whole pool of a difficulty whose requested count exceeds the pool size;
\* and building it does not raise.
C13_PlaylistShape ==
  (last_call = "__init__" /\ question_bank.status = "ok") =>
    /\ raised = "none"
    /\ Len(interview_playlist) = Quota("easy") + Quota("medium") + Quota("hard")
    /\ \A i, j \in 1..Len(interview_playlist) :
         i # j => interview_playlist[i] # interview_playlist[j]
    /\ \A d \in Drawn :
         interview_config[d] > Len(all_questions[d]) =>
           \A k \in 1..Len(all_questions[d]) :
             \E i \in 1..Len(interview_playlist) :
               interview_playlist[i] = all_questions[d][k]

C13_Witness ==
  /\ last_call = "__init__"
  /\ raised = "none"
  /\ DOMAIN interview_config = Difficulties
  /\ DOMAIN all_questions = { "easy", "medium" }
  /\ interview_config["easy"] > Len(all_questions["easy"])
  /\ Len(all_questions["easy"]) = 1
  /\ interview_config["medium"] = 1
  /\ Len(all_questions["medium"]) = 2
  /\ Len(interview_playlist) = 2
  /\ interview_playlist[1] = all_questions["medium"][2]

\* C15: a load failure of the question bank, file absent or file corrupt,
\* does not raise out of construction: the question set is empty, the
\* playlist is empty, and start_interview goes straight to CONCLUSION.
C15_LoadFailureDegrades ==
  (last_call # "none" /\ question_bank.status \in { "absent", "corrupt" }) =>
    /\ last_call = "__init__" => raised = "none"
    /\ all_questions = EmptyRepository
    /\ interview_playlist = << >>
    /\ last_call = "start_interview" => state = "CONCLUSION"

\* s holds a token of type t.
Has(s, t) == \E i \in 1..Len(s) : s[i].t = t

\* The returned string parses, and parses to the embedded object.
RoundTrips ==
  /\ JsonLoads(json_string).ok
  /\ JsonLoads(json_string).val = JsonLoads(embedding.object).val

\* C14 as stated: for any valid JSON object embedded in arbitrary prefix
\* and suffix text, braces included, with or without a reasoning block
\* ending in the marker before it, the returned string parses back to the
\* embedded object.
C14_RoundTripsAnyAffix == last_call = "_parse_response" => RoundTrips

\* The marker occurs only as the end of the reasoning block, the prefix
\* holds no opening brace and the suffix no closing brace.
CleanAffixes ==
  /\ ~Has(embedding.prefix, "think")
  /\ ~Has(embedding.suffix, "think")
  /\ ~Has(embedding.prefix, "lbrace")
  /\ ~Has(embedding.suffix, "rbrace")

\* C14 amended: when the text between the reasoning block and the object
\* holds no opening brace, the text after the object holds no closing brace
\* and the marker occurs only as the end of the reasoning block, the
\* returned string is the embedded object and parses back to it.
C14_RoundTripsCleanAffix ==
  (last_call = "_parse_response" /\ CleanAffixes) =>
    /\ json_string = embedding.object
    /\ RoundTrips

C14_Witness ==
  /\ last_call = "_parse_response"
  /\ CleanAffixes
  /\ Has(embedding.reasoning, "lbrace")
  /\ Has(embedding.prefix, "rbrace")
  /\ Has(embedding.suffix, "lbrace")
  /\ Len(embedding.object) > 2
  /\ Has(Tail(embedding.object), "lbrace")
  /\ RoundTrips

\* The evaluation requests and the summary requests among those sent.
Evaluations(sent) == SelectSeq(sent, LAMBDA r : r.purpose = "evaluation")

Summaries(sent) == SelectSeq(sent, LAMBDA r : r.purpose = "summary")

\* Every question of the playlist has been passed, each on its only graded
\* submission.
AllCorrectFirstTry ==
  /\ interview_started
  /\ current_question_index = Len(interview_playlist)
  /\ Len(Evaluations(requests)) = Len(interview_playlist)

\* C16: in a session over a playlist of N questions where every question is
\* answered correctly on the first try and the shell advances after each,
\* the transcript holds exactly 3N turns before conclusion, and conclusion
\* adds exactly 2 more.
C16_TurnCounts ==
  AllCorrectFirstTry =>
    /\ state # "CONCLUSION" => Len(history) = 3 * Len(interview_playlist)
    /\ state = "CONCLUSION" => Len(history) = 3 * Len(interview_playlist) + 2

\* The script run offers the chat input.
ChatOffered == interview_started /\ ~show_next_btn /\ state # "CONCLUSION"

\* C19: under the shell of app.py, wherever the chat input is offered the
\* agent is EVALUATING with current_question_index inside the playlist and
\* fewer than two attempts used; and while the interview is in progress
\* show_next_btn is true exactly when current_question_index has advanced
\* past the last presented question.
C19_ShellInStep ==
  /\ ChatOffered =>
       /\ state = "EVALUATING"
       /\ current_question_index < Len(interview_playlist)
       /\ attempts_for_current_question < MaxAttempts
  /\ (interview_started /\ state # "CONCLUSION") =>
       (show_next_btn <=> current_question_index >= LastPresented(history))

\* C20 (the part a finite run decides): under the shell of app.py no
\* playlist question receives more than two graded submissions, a session
\* makes at most 2N grading calls, and it makes exactly one summary call by
\* the time it is in CONCLUSION and none before.
C20_BoundedCalls ==
  /\ \A i \in 1..Len(interview_playlist) :
       EvaluationsOf(interview_playlist[i], requests) <= MaxAttempts
  /\ Len(Evaluations(requests)) <= MaxAttempts * Len(interview_playlist)
  /\ Len(Summaries(requests)) = IF state = "CONCLUSION" THEN 1 ELSE 0

====
